---- MODULE Spec2Model ----
(***************************************************************************)
(* Modbus client (TCP and RTU transports): checksum engine, data codec,    *)
(* request/response exchange of both transports, and the client lifecycle. *)
(* A client is one object built by NewTCPClient or NewRTUClient; the byte  *)
(* channel and the remote device are the environment.                      *)
(***************************************************************************)
EXTENDS Integers, Sequences, FiniteSets, TLC

(***************************************************************************)
(* Fixed-width integer helpers (Go's uint16 / uint32 / byte operators).    *)
(***************************************************************************)
\* bit p (a power of two) of a ^ b
XorBit(a, b, p) == p * ((((a \div p) % 2) + ((b \div p) % 2)) % 2)

RECURSIVE OrN(_, _, _)
OrN(a, b, n) ==
    IF n = 0 THEN 0
    ELSE (IF a % 2 = 1 \/ b % 2 = 1 THEN 1 ELSE 0) + 2 * OrN(a \div 2, b \div 2, n - 1)

RECURSIVE Pow2(_)
Pow2(n) == IF n = 0 THEN 1 ELSE 2 * Pow2(n - 1)

Bit(x, k) == (x \div Pow2(k)) % 2

U16 == 65536

\* a ^ b on uint16
Xor16(a, b) ==
    XorBit(a, b, 1) + XorBit(a, b, 2) + XorBit(a, b, 4) + XorBit(a, b, 8)
    + XorBit(a, b, 16) + XorBit(a, b, 32) + XorBit(a, b, 64) + XorBit(a, b, 128)
    + XorBit(a, b, 256) + XorBit(a, b, 512) + XorBit(a, b, 1024) + XorBit(a, b, 2048)
    + XorBit(a, b, 4096) + XorBit(a, b, 8192) + XorBit(a, b, 16384) + XorBit(a, b, 32768)

Or8(a, b) == OrN(a, b, 8)

Drop(s, k) == IF k >= Len(s) THEN <<>> ELSE SubSeq(s, k + 1, Len(s))

Take(s, k) == IF k >= Len(s) THEN s ELSE SubSeq(s, 1, k)

(***************************************************************************)
(* crc.go                                                                  *)
(***************************************************************************)
CRCPoly == 40961

CRCInit == 65535

\* the inner loop: eight times, shift right and, when the bit shifted out was
\* set, xor with the polynomial
RECURSIVE CRC16Shift(_, _)
CRC16Shift(crc, i) ==
    IF i = 8 THEN crc
    ELSE CRC16Shift(IF crc % 2 # 0 THEN Xor16(crc \div 2, CRCPoly) ELSE crc \div 2, i + 1)

\* one round of the outer loop: crc ^= uint16(b), then the eight shifts
CRC16Byte(crc, b) == CRC16Shift(Xor16(crc, b), 0)

\* the loop over data[lo..hi], left to right, starting from crc.  The range
\* is halved, and the left half's value (a uint16) is computed before the
\* right half starts, so that the evaluation does not nest once per byte.
RECURSIVE CRC16Range(_, _, _, _)
CRC16Range(data, lo, hi, crc) ==
    IF lo > hi THEN crc
    ELSE IF lo = hi THEN CRC16Byte(crc, data[lo])
    ELSE LET mid == (lo + hi) \div 2
             left == CRC16Range(data, lo, mid, crc)
         IN  IF left < U16 THEN CRC16Range(data, mid + 1, hi, left) ELSE left

CRC16(data) == CRC16Range(data, 1, Len(data), CRCInit)

\* the checksum appended high byte first
AppendCRC_HighFirst(data) ==
    LET crc == CRC16(data) IN data \o <<crc \div 256, crc % 256>>

AppendCRC(data) ==
    LET crc == CRC16(data)
    IN  data \o <<crc % 256, (crc \div 256) % 256>>

CheckCRCMinLen == 3

\* only the low byte of the checksum compared
CheckCRC_LowByteOnly(data) ==
    IF Len(data) < CheckCRCMinLen THEN FALSE
    ELSE data[Len(data) - 1] = CRC16(SubSeq(data, 1, Len(data) - 2)) % 256

\* the length checked and the checksum not compared
CheckCRC_LengthOnly(data) == Len(data) >= CheckCRCMinLen

CheckCRC(data) ==
    IF Len(data) < CheckCRCMinLen THEN FALSE
    ELSE LET payload == SubSeq(data, 1, Len(data) - 2)
             receivedCRC == data[Len(data) - 1] + 256 * data[Len(data)]
             calculatedCRC == CRC16(payload)
         IN  receivedCRC = calculatedCRC

(***************************************************************************)
(* client.go: data codec                                                   *)
(***************************************************************************)
bytesToBools(data, quantity) ==
    [i \in 1..quantity |->
        LET byteIndex == (i - 1) \div 8
            bitIndex == (i - 1) % 8
        IN  IF byteIndex < Len(data)
            THEN Bit(data[byteIndex + 1], bitIndex) # 0
            ELSE FALSE]

\* bit i of the values put at bit 7 - (i mod 8) of its byte
boolsToBytes_MSBFirst(values) ==
    LET byteCount == (Len(values) + 7) \div 8
        BitOf(i) == IF i <= Len(values) /\ values[i] THEN 1 ELSE 0
    IN  [j \in 1..byteCount |->
            128 * BitOf(8 * j - 7) + 64 * BitOf(8 * j - 6) + 32 * BitOf(8 * j - 5)
            + 16 * BitOf(8 * j - 4) + 8 * BitOf(8 * j - 3) + 4 * BitOf(8 * j - 2)
            + 2 * BitOf(8 * j - 1) + BitOf(8 * j)]

boolsToBytes(values) ==
    LET byteCount == (Len(values) + 7) \div 8
        BitOf(i) == IF i <= Len(values) /\ values[i] THEN 1 ELSE 0
    IN  [j \in 1..byteCount |->
            BitOf(8 * j - 7) + 2 * BitOf(8 * j - 6) + 4 * BitOf(8 * j - 5)
            + 8 * BitOf(8 * j - 4) + 16 * BitOf(8 * j - 3) + 32 * BitOf(8 * j - 2)
            + 64 * BitOf(8 * j - 1) + 128 * BitOf(8 * j)]

bytesToUint16s(data) ==
    [i \in 1..(Len(data) \div 2) |-> data[2 * i - 1] * 256 + data[2 * i]]

\* each register written low byte first
uint16sToBytes_LittleEndian(values) ==
    [k \in 1..(2 * Len(values)) |->
        IF k % 2 = 1 THEN values[(k + 1) \div 2] % 256
        ELSE (values[k \div 2] \div 256) % 256]

uint16sToBytes(values) ==
    [k \in 1..(2 * Len(values)) |->
        IF k % 2 = 1 THEN (values[(k + 1) \div 2] \div 256) % 256
        ELSE values[k \div 2] % 256]

\* binary.BigEndian.PutUint16
PutUint16(v) == <<(v \div 256) % 256, v % 256>>

(***************************************************************************)
(* modbus.go: function codes and errors                                    *)
(***************************************************************************)
FuncCodeReadCoils == 1

FuncCodeReadDiscreteInputs == 2

FuncCodeReadHoldingRegisters == 3

FuncCodeReadInputRegisters == 4

FuncCodeWriteSingleCoil == 5

FuncCodeWriteSingleRegister == 6

FuncCodeWriteMultipleCoils == 15

FuncCodeWriteMultipleRegisters == 16

ExceptionIllegalDataAddress == 2

ExceptionBit == 128

MaxCoilsRead == 2000

MaxRegistersRead == 125

MaxCoilsWrite == 1968

MaxRegistersWrite == 123

MBAPLen == 7

MaxRTUFrame == 260

MinRTUFrame == 4

(***************************************************************************)
(* A Go byte slice made by make([]byte, cap) and filled by one Read: its   *)
(* first Len(got) bytes are the bytes read, the rest are zero.             *)
(***************************************************************************)
Slice(got, cap) == [got |-> got, cap |-> cap]

SliceAt(s, i) == IF i < Len(s.got) THEN s.got[i + 1] ELSE 0

SliceFrom(s, k) == [got |-> Drop(s.got, k), cap |-> s.cap - k]

SliceBytes(s) == s.got \o [i \in 1..(s.cap - Len(s.got)) |-> 0]

NoSlice == Slice(<<>>, 0)

(***************************************************************************)
(* Bounds of the model.                                                    *)
(***************************************************************************)
MaxCalls == 2

MaxDials == 2

\* A run is one of three kinds.
\*   "faults"    the remote may answer anything (wrong, short, malformed), each
\*               answer delivered whole; the caller uses small quantities
\*   "segments"  the remote answers as a conforming device (data or exception)
\*               or not at all, and the channel may deliver in segments
\*   "limits"    the caller uses the quantities at the limits of each
\*               operation, a stream client's counter is about to wrap, and the
\*               remote answers as a conforming device, or not at all
Scenarios == {"faults", "segments", "limits"}

SlaveIDs == {1}

Addresses == {258}

\* the counter of a client that has already issued 2^32 - 2 requests
NearWrap == [hi |-> U16 - 1, lo |-> U16 - 2]

NewCounter == [hi |-> 0, lo |-> 0]

\* contents of the remote device
DeviceCoil(i) == i % 3 = 0

DeviceRegister(i) == (4660 + 257 * i) % U16

CoilValues(n) == [i \in 1..n |-> i % 2 = 1]

RegisterValues(n) == [i \in 1..n |-> (43981 + i) % U16]

(***************************************************************************)
(* State.                                                                  *)
(*   transport      which constructor built the client ("tcp" / "rtu")     *)
(*   chan           c.conn / c.port: 0 is nil, else the channel's handle   *)
(*   opened         handles of the channels that are open                  *)
(*   dials          channels acquired so far (the next handle is dials+1)  *)
(*   transactionID  c.transactionID, a uint32 kept as two 16-bit halves    *)
(*   inbuf          bytes delivered on the current channel and not read    *)
(*   sent           correlation ids of the request frames handed to Write  *)
(*   tid0           the counter at the start of the run                    *)
(*   calls          read/write operations called so far                    *)
(*   last           what the last operation did and returned               *)
(*   prev           how the operation before the last one ended            *)
(*   scenario       the kind of run (see Scenarios)                        *)
(*   codec          the checksum engine and data codec applied to an input *)
(*                  x (of kind bytes, bools or registers): the frame or    *)
(*                  encoding produced, the verdict ok of CheckCRC, the     *)
(*                  sequence out decoded with quantity q, and the bit p    *)
(*                  of the frame inverted in transit (-1: none)            *)
(*   flight         calls running concurrently on one stream client: the   *)
(*                  position and the exchange of each, the requests the    *)
(*                  remote has not answered yet, and whether two calls     *)
(*                  were ever in progress at the same time                 *)
(***************************************************************************)
VARIABLES transport, chan, opened, dials, transactionID, inbuf, sent, tid0, calls,
          last, prev, scenario, codec, flight

vars == <<transport, chan, opened, dials, transactionID, inbuf, sent, tid0, calls,
          last, prev, scenario, codec, flight>>

clientVars == <<transport, chan, opened, dials, transactionID, inbuf, sent, tid0, calls,
                last, prev, scenario>>

\* counts a Read may return short of what is available (segmented delivery)
ShortReads == IF scenario = "segments" THEN {2, 6} ELSE {}

BitQuantities ==
    IF scenario # "limits" THEN {0, 10}
    ELSE {0, 1, MaxCoilsRead, MaxCoilsRead + 1, U16 - 1}

RegQuantities ==
    IF scenario # "limits" THEN {0, 2}
    ELSE {0, 1, MaxRegistersRead, MaxRegistersRead + 1, U16 - 1}

CoilCounts ==
    IF scenario # "limits" THEN {0, 3}
    ELSE {0, 1, MaxCoilsWrite, MaxCoilsWrite + 1}

RegCounts ==
    IF scenario # "limits" THEN {0, 2}
    ELSE {0, 1, MaxRegistersWrite, MaxRegistersWrite + 1}

Min(a, b) == IF a < b THEN a ELSE b

\* the incremented value is not stored back
AddUint32One_Lost(t) == t

\* atomic.AddUint32(&c.transactionID, 1)
AddUint32One(t) ==
    IF t.lo + 1 = U16 THEN [hi |-> (t.hi + 1) % U16, lo |-> 0]
    ELSE [hi |-> t.hi, lo |-> t.lo + 1]

\* uint16(v) of a uint32
Uint16Of(t) == t.lo

\* what a call of sendRequest did and returned, when it touched nothing
NoExchange ==
    [err |-> "", excFc |-> 0, excCode |-> 0, resp |-> NoSlice,
     tid |-> transactionID, inb |-> inbuf,
     writeCalled |-> FALSE, wrote |-> <<>>, sentID |-> -1,
     reads |-> 0, remote |-> <<>>, stale |-> inbuf,
     hdrN |-> -1, respTransID |-> -1, length |-> -1,
     pduN |-> -1, pdu |-> NoSlice, rx |-> <<>>]

(***************************************************************************)
(* The channel.  A Read into a buffer of `want` bytes with `avail` bytes   *)
(* delivered returns min(want, avail) bytes, or fewer when the bytes       *)
(* arrive in segments.                                                     *)
(***************************************************************************)
ReadCounts(want, avail) ==
    {Min(want, avail)} \cup {k \in ShortReads : k < Min(want, avail)}

(***************************************************************************)
(* The remote device: the PDU a conforming device returns for a request.   *)
(***************************************************************************)
RequestQuantity(data) == data[3] * 256 + data[4]

CorrectPDU(fc, data) ==
    LET q == RequestQuantity(data)
    IN  IF fc \in {FuncCodeReadCoils, FuncCodeReadDiscreteInputs}
        THEN <<fc, ((q + 7) \div 8) % 256>> \o boolsToBytes([i \in 1..q |-> DeviceCoil(i)])
        ELSE IF fc \in {FuncCodeReadHoldingRegisters, FuncCodeReadInputRegisters}
        THEN <<fc, (2 * q) % 256>> \o uint16sToBytes([i \in 1..q |-> DeviceRegister(i)])
        ELSE <<fc>> \o SubSeq(data, 1, 4)

OtherFunctionCode(fc) == IF fc = FuncCodeReadCoils THEN FuncCodeReadDiscreteInputs ELSE FuncCodeReadCoils

\* PDUs a remote may answer with: correct, exception, exception without its
\* code, another function code, no payload, a payload cut short
RemotePDUs(fc, data) ==
    LET good == CorrectPDU(fc, data)
    IN  IF scenario = "limits" THEN {good}
        ELSE IF scenario = "segments"
        THEN {good, <<fc + ExceptionBit, ExceptionIllegalDataAddress>>}
        ELSE
        {good,
         <<fc + ExceptionBit, ExceptionIllegalDataAddress>>,
         <<fc + ExceptionBit>>,
         <<OtherFunctionCode(fc)>> \o Tail(good),
         <<fc>>,
         SubSeq(good, 1, Len(good) - 1)}

TCPFrame(id, length, unit, pdu) ==
    PutUint16(id) \o <<0, 0>> \o PutUint16(length) \o <<unit>> \o pdu

TCPRemote(transID, slaveID, fc, data) ==
    {TCPFrame(transID, 1 + Len(pdu), slaveID, pdu) : pdu \in RemotePDUs(fc, data)}
    \cup {<<>>}
    \cup IF scenario # "faults" THEN {} ELSE
         {TCPFrame((transID + 1) % U16, 1 + Len(CorrectPDU(fc, data)), slaveID, CorrectPDU(fc, data)),
          TCPFrame(transID, 1, slaveID, <<>>),
          TCPFrame(transID, 0, slaveID, <<>>)}

Corrupt(frame) == SubSeq(frame, 1, Len(frame) - 1) \o <<(frame[Len(frame)] + 1) % 256>>

RTURemote(slaveID, fc, data) ==
    {AppendCRC(<<slaveID>> \o pdu) : pdu \in RemotePDUs(fc, data)}
    \cup {<<>>}
    \cup IF scenario # "faults" THEN {} ELSE
         {Corrupt(AppendCRC(<<slaveID>> \o CorrectPDU(fc, data))),
          AppendCRC(<<slaveID + 1>> \o CorrectPDU(fc, data)),
          AppendCRC(<<slaveID + 1, fc + ExceptionBit, ExceptionIllegalDataAddress>>),
          Corrupt(AppendCRC(<<slaveID + 1, fc + ExceptionBit, ExceptionIllegalDataAddress>>)),
          AppendCRC(<<slaveID>>)}

(***************************************************************************)
(* TCPClient.sendRequest: the set of ways one call can go.                 *)
(***************************************************************************)
\* the function code compared without the exception bit
ExceptionMarker_NoBit(fc) == fc

\* pdu.FunctionCode | 0x80
ExceptionMarker(fc) == Or8(fc, ExceptionBit)

\* the exception check and the return of the payload
TCPCheckException(fc, pduData, r) ==
    IF pduData.cap = 0
    THEN [r EXCEPT !.err = "Panic"]
    ELSE IF SliceAt(pduData, 0) = ExceptionMarker(fc)
    THEN IF pduData.cap >= 2
         THEN [r EXCEPT !.err = "ModbusError", !.excFc = fc, !.excCode = SliceAt(pduData, 1)]
         ELSE [r EXCEPT !.err = "InvalidResponse"]
    ELSE [r EXCEPT !.resp = SliceFrom(pduData, 1)]

\* only the high bytes of the two ids compared
TCPTransIDMismatch_HighByte(respTransID, transID) ==
    respTransID \div 256 # transID \div 256

\* respTransID != transID
TCPTransIDMismatch(respTransID, transID) == respTransID # transID

\* the unit id counted as part of the PDU
TCPPDULen_WithUnit(length) == length % U16

\* make([]byte, length-1) with length a uint16
TCPPDULen(length) == (length - 1) % U16

\* c.conn.Read(pduData) and what follows
TCPReadPDU(fc, length, rest, r) ==
    LET cap == TCPPDULen(length)
    IN  IF cap = 0
        THEN {TCPCheckException(fc, Slice(<<>>, 0), [r EXCEPT !.reads = 2, !.pduN = 0])}
        ELSE IF Len(rest) = 0
        THEN {[r EXCEPT !.err = "ReadPDUFailed", !.reads = 2]}
        ELSE {LET pduData == Slice(Take(rest, m), cap)
              IN  TCPCheckException(fc, pduData,
                      [r EXCEPT !.reads = 2, !.pduN = m, !.pdu = pduData, !.inb = Drop(rest, m)])
              : m \in ReadCounts(cap, Len(rest))}

\* c.conn.Read(header), the parse of the header and the check of its id
TCPReadHeader(transID, avail, r) ==
    IF Len(avail) = 0
    THEN {[r EXCEPT !.err = "ReadHeaderFailed", !.reads = 1]}
    ELSE {
        LET header == Slice(Take(avail, n), MBAPLen)
            rest == Drop(avail, n)
            respTransID == SliceAt(header, 0) * 256 + SliceAt(header, 1)
            length == SliceAt(header, 4) * 256 + SliceAt(header, 5)
            r1 == [r EXCEPT !.reads = 1, !.hdrN = n, !.respTransID = respTransID,
                            !.length = length, !.inb = rest]
        IN  IF TCPTransIDMismatch(respTransID, transID)
            THEN [r1 EXCEPT !.err = "InvalidResponse"]
            ELSE r1
        : n \in ReadCounts(MBAPLen, Len(avail))}

\* c.conn.Read(header) and what follows
TCPReadResponse(fc, transID, avail, r) ==
    UNION {IF r1.err # "" THEN {r1} ELSE TCPReadPDU(fc, r1.length, r1.inb, r1)
           : r1 \in TCPReadHeader(transID, avail, r)}

\* the id captured before the increment
TCPNextTransID_CaptureFirst(t) == Uint16Of(t)

\* transID := uint16(atomic.AddUint32(&c.transactionID, 1))
TCPNextTransID(t) == Uint16Of(AddUint32One(t))

TCPNotConnected == chan = 0

TCPsendRequest(slaveID, fc, data) ==
    IF TCPNotConnected
    THEN {[NoExchange EXCEPT !.err = "NotConnected"]}
    ELSE LET transID == TCPNextTransID(transactionID)
             mbap == PutUint16(transID) \o PutUint16(0)
                     \o PutUint16((2 + Len(data)) % U16) \o <<slaveID>>
             request == mbap \o <<fc>> \o data
             r0 == [NoExchange EXCEPT !.tid = AddUint32One(transactionID),
                                      !.sentID = transID,
                                      !.writeCalled = TRUE, !.wrote = request]
         IN  IF chan \notin opened
             THEN {[r0 EXCEPT !.err = "WriteFailed"]}
             ELSE UNION {TCPReadResponse(fc, transID, inbuf \o remote,
                                         [r0 EXCEPT !.remote = remote])
                         : remote \in TCPRemote(transID, slaveID, fc, data)}

(***************************************************************************)
(* RTUClient.sendRequest                                                   *)
(***************************************************************************)
\* the minimum taken as the two checksum bytes
RTUTooShort_Two(n) == n < 2

RTUTooShort(n) == n < MinRTUFrame

RTUSlaveIDMismatch(frame, slaveID) == frame[1] # slaveID

\* the unit id checked before the checksum
RTUCheckResponse_SlaveFirst(slaveID, fc, received, r) ==
    LET n == Len(received)
        frame == SubSeq(received, 1, n - 2)
    IN  IF RTUTooShort(n) THEN [r EXCEPT !.err = "Timeout"]
        ELSE IF RTUSlaveIDMismatch(frame, slaveID) THEN [r EXCEPT !.err = "InvalidSlaveID"]
        ELSE IF ~CheckCRC(received) THEN [r EXCEPT !.err = "InvalidCRC"]
        ELSE IF frame[2] = ExceptionMarker(fc)
        THEN IF Len(frame) >= 3
             THEN [r EXCEPT !.err = "ModbusError", !.excFc = fc, !.excCode = frame[3]]
             ELSE [r EXCEPT !.err = "InvalidResponse"]
        ELSE [r EXCEPT !.resp = Slice(Drop(frame, 2), Len(frame) - 2)]

\* the checks on the n bytes received, in the order of the code
RTUCheckResponse(slaveID, fc, received, r) ==
    LET n == Len(received)
        frame == SubSeq(received, 1, n - 2)
    IN  IF RTUTooShort(n) THEN [r EXCEPT !.err = "Timeout"]
        ELSE IF ~CheckCRC(received) THEN [r EXCEPT !.err = "InvalidCRC"]
        ELSE IF Len(frame) < 2 THEN [r EXCEPT !.err = "Panic"]
        ELSE IF RTUSlaveIDMismatch(frame, slaveID) THEN [r EXCEPT !.err = "InvalidSlaveID"]
        ELSE IF frame[2] = ExceptionMarker(fc)
        THEN IF Len(frame) >= 3
             THEN [r EXCEPT !.err = "ModbusError", !.excFc = fc, !.excCode = frame[3]]
             ELSE [r EXCEPT !.err = "InvalidResponse"]
        ELSE [r EXCEPT !.resp = Slice(Drop(frame, 2), Len(frame) - 2)]

RTUNotConnected == chan = 0

RTUsendRequest(slaveID, fc, data) ==
    IF RTUNotConnected
    THEN {[NoExchange EXCEPT !.err = "PortNotOpen"]}
    ELSE LET adu == AppendCRC(<<slaveID, fc>> \o data)
             r0 == [NoExchange EXCEPT !.writeCalled = TRUE, !.wrote = adu]
         IN  IF chan \notin opened
             THEN {[r0 EXCEPT !.err = "WriteFailed"]}
             ELSE UNION {
                 LET avail == inbuf \o remote
                 IN  {RTUCheckResponse(slaveID, fc, Take(avail, n),
                          [r0 EXCEPT !.remote = remote, !.reads = 1,
                                     !.rx = Take(avail, n), !.inb = Drop(avail, n)])
                      : n \in ReadCounts(MaxRTUFrame, Len(avail))}
                 : remote \in RTURemote(slaveID, fc, data)}

\* the Client interface: the call goes to the transport the client was built with
sendRequest(slaveID, fc, data) ==
    IF transport = "tcp" THEN TCPsendRequest(slaveID, fc, data)
    ELSE RTUsendRequest(slaveID, fc, data)

(***************************************************************************)
(* The operations of the Client interface.  Both clients implement each    *)
(* with the same code around their own sendRequest.                        *)
(***************************************************************************)
\* an operation returns: its effects on the client and the channel.  The value
\* a read returns is decoded from the payload r.resp (see Value below).
Return(op, fc, slaveID, qty, r) ==
    /\ last' = [op |-> op, fc |-> fc, slaveID |-> slaveID, qty |-> qty, x |-> r]
    /\ transactionID' = r.tid
    /\ inbuf' = r.inb
    /\ sent' = IF r.writeCalled /\ r.sentID >= 0 THEN Append(sent, r.sentID) ELSE sent
    /\ calls' = calls + 1
    /\ UNCHANGED <<transport, chan, opened, dials, tid0, prev, scenario, codec, flight>>

\* the upper limit itself rejected
InvalidBitQuantity_OffByOne(quantity) == quantity = 0 \/ quantity >= MaxCoilsRead

InvalidBitQuantity(quantity) == quantity = 0 \/ quantity > MaxCoilsRead

InvalidRegQuantity(quantity) == quantity = 0 \/ quantity > MaxRegistersRead

InvalidCoilCount(n) == n = 0 \/ n > MaxCoilsWrite

InvalidRegCount(n) == n = 0 \/ n > MaxRegistersWrite

Rejected == [NoExchange EXCEPT !.err = "InvalidQuantity"]

\* len(response) < 1 after a successful exchange
NoPayload(r) == r.resp.cap < 1

\* bytesToBools(response[1:], quantity)
DecodeBits(resp, quantity) == bytesToBools(SliceBytes(SliceFrom(resp, 1)), quantity)

\* bytesToUint16s(response[1:])
DecodeRegisters(resp) == bytesToUint16s(SliceBytes(SliceFrom(resp, 1)))

\* ReadCoils, ReadDiscreteInputs
ReadBits(op, fc, slaveID, address, quantity) ==
    IF InvalidBitQuantity(quantity)
    THEN Return(op, fc, slaveID, quantity, Rejected)
    ELSE \E r \in sendRequest(slaveID, fc, PutUint16(address) \o PutUint16(quantity)) :
            IF r.err # "" THEN Return(op, fc, slaveID, quantity, r)
            ELSE IF NoPayload(r)
            THEN Return(op, fc, slaveID, quantity, [r EXCEPT !.err = "InvalidResponse"])
            ELSE Return(op, fc, slaveID, quantity, r)

\* ReadHoldingRegisters, ReadInputRegisters
ReadRegisters(op, fc, slaveID, address, quantity) ==
    IF InvalidRegQuantity(quantity)
    THEN Return(op, fc, slaveID, quantity, Rejected)
    ELSE \E r \in sendRequest(slaveID, fc, PutUint16(address) \o PutUint16(quantity)) :
            IF r.err # "" THEN Return(op, fc, slaveID, quantity, r)
            ELSE IF NoPayload(r)
            THEN Return(op, fc, slaveID, quantity, [r EXCEPT !.err = "InvalidResponse"])
            ELSE Return(op, fc, slaveID, quantity, r)

WriteSingleCoil(op, slaveID, address, value) ==
    \E r \in sendRequest(slaveID, FuncCodeWriteSingleCoil,
                         PutUint16(address) \o PutUint16(IF value THEN 65280 ELSE 0)) :
        Return(op, FuncCodeWriteSingleCoil, slaveID, 1, r)

WriteSingleRegister(op, slaveID, address, value) ==
    \E r \in sendRequest(slaveID, FuncCodeWriteSingleRegister,
                         PutUint16(address) \o PutUint16(value)) :
        Return(op, FuncCodeWriteSingleRegister, slaveID, 1, r)

WriteMultipleCoils(op, slaveID, address, values) ==
    IF InvalidCoilCount(Len(values))
    THEN Return(op, FuncCodeWriteMultipleCoils, slaveID, Len(values), Rejected)
    ELSE LET byteCount == (Len(values) + 7) \div 8
             data == PutUint16(address) \o PutUint16(Len(values) % U16)
                     \o <<byteCount % 256>> \o boolsToBytes(values)
         IN  \E r \in sendRequest(slaveID, FuncCodeWriteMultipleCoils, data) :
                 Return(op, FuncCodeWriteMultipleCoils, slaveID, Len(values), r)

WriteMultipleRegisters(op, slaveID, address, values) ==
    IF InvalidRegCount(Len(values))
    THEN Return(op, FuncCodeWriteMultipleRegisters, slaveID, Len(values), Rejected)
    ELSE LET data == PutUint16(address) \o PutUint16(Len(values) % U16)
                     \o <<(Len(values) * 2) % 256>> \o uint16sToBytes(values)
         IN  \E r \in sendRequest(slaveID, FuncCodeWriteMultipleRegisters, data) :
                 Return(op, FuncCodeWriteMultipleRegisters, slaveID, Len(values), r)

BitReads == {"ReadCoils", "ReadDiscreteInputs"}

RegisterReads == {"ReadHoldingRegisters", "ReadInputRegisters"}

\* the value a read operation returned with a nil error
Value(l) ==
    IF l.op \in BitReads THEN DecodeBits(l.x.resp, l.qty)
    ELSE IF l.op \in RegisterReads THEN DecodeRegisters(l.x.resp)
    ELSE <<>>

\* the caller is between two calls: it has taken the result of the last one
Idle == last.op = "None"

CanCall(t) == transport = t /\ Idle /\ calls < MaxCalls

TCPReadCoils ==
    /\ CanCall("tcp")
    /\ \E u \in SlaveIDs, a \in Addresses, q \in BitQuantities :
          ReadBits("ReadCoils", FuncCodeReadCoils, u, a, q)

TCPReadDiscreteInputs ==
    /\ CanCall("tcp")
    /\ \E u \in SlaveIDs, a \in Addresses, q \in BitQuantities :
          ReadBits("ReadDiscreteInputs", FuncCodeReadDiscreteInputs, u, a, q)

TCPReadHoldingRegisters ==
    /\ CanCall("tcp")
    /\ \E u \in SlaveIDs, a \in Addresses, q \in RegQuantities :
          ReadRegisters("ReadHoldingRegisters", FuncCodeReadHoldingRegisters, u, a, q)

TCPReadInputRegisters ==
    /\ CanCall("tcp")
    /\ \E u \in SlaveIDs, a \in Addresses, q \in RegQuantities :
          ReadRegisters("ReadInputRegisters", FuncCodeReadInputRegisters, u, a, q)

TCPWriteSingleCoil ==
    /\ CanCall("tcp")
    /\ \E u \in SlaveIDs, a \in Addresses, v \in {TRUE} :
          WriteSingleCoil("WriteSingleCoil", u, a, v)

TCPWriteSingleRegister ==
    /\ CanCall("tcp")
    /\ \E u \in SlaveIDs, a \in Addresses, v \in {DeviceRegister(1)} :
          WriteSingleRegister("WriteSingleRegister", u, a, v)

TCPWriteMultipleCoils ==
    /\ CanCall("tcp")
    /\ \E u \in SlaveIDs, a \in Addresses, n \in CoilCounts :
          WriteMultipleCoils("WriteMultipleCoils", u, a, CoilValues(n))

TCPWriteMultipleRegisters ==
    /\ CanCall("tcp")
    /\ \E u \in SlaveIDs, a \in Addresses, n \in RegCounts :
          WriteMultipleRegisters("WriteMultipleRegisters", u, a, RegisterValues(n))

RTUReadCoils ==
    /\ CanCall("rtu")
    /\ \E u \in SlaveIDs, a \in Addresses, q \in BitQuantities :
          ReadBits("ReadCoils", FuncCodeReadCoils, u, a, q)

RTUReadDiscreteInputs ==
    /\ CanCall("rtu")
    /\ \E u \in SlaveIDs, a \in Addresses, q \in BitQuantities :
          ReadBits("ReadDiscreteInputs", FuncCodeReadDiscreteInputs, u, a, q)

RTUReadHoldingRegisters ==
    /\ CanCall("rtu")
    /\ \E u \in SlaveIDs, a \in Addresses, q \in RegQuantities :
          ReadRegisters("ReadHoldingRegisters", FuncCodeReadHoldingRegisters, u, a, q)

RTUReadInputRegisters ==
    /\ CanCall("rtu")
    /\ \E u \in SlaveIDs, a \in Addresses, q \in RegQuantities :
          ReadRegisters("ReadInputRegisters", FuncCodeReadInputRegisters, u, a, q)

RTUWriteSingleCoil ==
    /\ CanCall("rtu")
    /\ \E u \in SlaveIDs, a \in Addresses, v \in {TRUE} :
          WriteSingleCoil("WriteSingleCoil", u, a, v)

RTUWriteSingleRegister ==
    /\ CanCall("rtu")
    /\ \E u \in SlaveIDs, a \in Addresses, v \in {DeviceRegister(1)} :
          WriteSingleRegister("WriteSingleRegister", u, a, v)

RTUWriteMultipleCoils ==
    /\ CanCall("rtu")
    /\ \E u \in SlaveIDs, a \in Addresses, n \in CoilCounts :
          WriteMultipleCoils("WriteMultipleCoils", u, a, CoilValues(n))

RTUWriteMultipleRegisters ==
    /\ CanCall("rtu")
    /\ \E u \in SlaveIDs, a \in Addresses, n \in RegCounts :
          WriteMultipleRegisters("WriteMultipleRegisters", u, a, RegisterValues(n))

(***************************************************************************)
(* Connect and Close                                                       *)
(***************************************************************************)
Lifecycle(op, err) ==
    last' = [op |-> op, fc |-> 0, slaveID |-> 0, qty |-> 0,
             x |-> [NoExchange EXCEPT !.err = err]]

\* net.DialTimeout fails: the client is left as it was
TCPConnectFail ==
    /\ transport = "tcp" /\ Idle /\ dials < MaxDials
    /\ Lifecycle("Connect", "ConnectFailed")
    /\ UNCHANGED <<transport, chan, opened, dials, transactionID, inbuf, sent, tid0, calls, prev, scenario, codec, flight>>

TCPConnectOK ==
    /\ transport = "tcp" /\ Idle /\ dials < MaxDials
    /\ dials' = dials + 1
    /\ opened' = opened \cup {dials + 1}
    /\ chan' = dials + 1
    /\ inbuf' = <<>>
    /\ Lifecycle("Connect", "")
    /\ UNCHANGED <<transport, transactionID, sent, tid0, calls, prev, scenario, codec, flight>>

TCPConnect == TCPConnectFail \/ TCPConnectOK

\* c.conn.Close() when c.conn is not nil; c.conn is left as it is
CloseChannel ==
    IF chan # 0
    THEN /\ opened' = opened \ {chan}
         /\ Lifecycle("Close", IF chan \in opened THEN "" ELSE "CloseFailed")
    ELSE /\ opened' = opened
         /\ Lifecycle("Close", "")

TCPClose ==
    /\ transport = "tcp" /\ Idle
    /\ CloseChannel
    /\ UNCHANGED <<transport, chan, dials, transactionID, inbuf, sent, tid0, calls, prev, scenario, codec, flight>>

\* serial.Open fails
RTUConnectFail ==
    /\ transport = "rtu" /\ Idle /\ dials < MaxDials
    /\ Lifecycle("Connect", "ConnectFailed")
    /\ UNCHANGED <<transport, chan, opened, dials, transactionID, inbuf, sent, tid0, calls, prev, scenario, codec, flight>>

\* the port stored in c.port before SetReadTimeout is tried
RTUConnectTimeoutFail_KeepsPort ==
    /\ transport = "rtu" /\ Idle /\ dials < MaxDials
    /\ dials' = dials + 1
    /\ chan' = dials + 1
    /\ Lifecycle("Connect", "ConnectFailed")
    /\ UNCHANGED <<transport, opened, transactionID, inbuf, sent, tid0, calls, prev, scenario, codec, flight>>

\* serial.Open succeeds and port.SetReadTimeout fails: the port is closed again
RTUConnectTimeoutFail ==
    /\ transport = "rtu" /\ Idle /\ dials < MaxDials
    /\ dials' = dials + 1
    /\ Lifecycle("Connect", "ConnectFailed")
    /\ UNCHANGED <<transport, chan, opened, transactionID, inbuf, sent, tid0, calls, prev, scenario, codec, flight>>

RTUConnectOK ==
    /\ transport = "rtu" /\ Idle /\ dials < MaxDials
    /\ dials' = dials + 1
    /\ opened' = opened \cup {dials + 1}
    /\ chan' = dials + 1
    /\ inbuf' = <<>>
    /\ Lifecycle("Connect", "")
    /\ UNCHANGED <<transport, transactionID, sent, tid0, calls, prev, scenario, codec, flight>>

RTUConnect == RTUConnectFail \/ RTUConnectTimeoutFail \/ RTUConnectOK

RTUClose ==
    /\ transport = "rtu" /\ Idle
    /\ CloseChannel
    /\ UNCHANGED <<transport, chan, dials, transactionID, inbuf, sent, tid0, calls, prev, scenario, codec, flight>>

(***************************************************************************)
(* The caller takes the result of the operation that returned, and is then *)
(* free to call the next one.  A panic ends the run.  prev keeps whether   *)
(* the operation was a call that failed with a validation, framing or      *)
(* application error on an open channel.                                   *)
(***************************************************************************)
Outcome(l) ==
    IF /\ l.op \notin {"Connect", "Close"}
       /\ l.x.err \in {"InvalidQuantity", "InvalidResponse", "InvalidCRC",
                        "InvalidSlaveID", "Timeout", "ModbusError"}
       /\ chan \in opened
    THEN "failed"
    ELSE "other"

TakeResult ==
    /\ last.op # "None"
    /\ last.x.err # "Panic"
    /\ prev' = Outcome(last)
    /\ last' = [op |-> "None", fc |-> 0, slaveID |-> 0, qty |-> 0, x |-> NoExchange]
    /\ UNCHANGED <<transport, chan, opened, dials, transactionID, inbuf, sent, tid0,
                   calls, scenario, codec, flight>>

(***************************************************************************)
(* NewTCPClient / NewRTUClient, and the specification.                     *)
(***************************************************************************)
NoCodec ==
    [op |-> "None", kind |-> "bytes", x |-> <<>>, q |-> 0, frame |-> <<>>,
     ok |-> FALSE, out |-> <<>>, p |-> -1]

ClientInit ==
    /\ transport \in {"tcp", "rtu"}
    /\ scenario \in Scenarios
    /\ chan = 0
    /\ opened = {}
    /\ dials = 0
    /\ tid0 = IF transport = "tcp" /\ scenario = "limits" THEN NearWrap ELSE NewCounter
    /\ transactionID = tid0
    /\ inbuf = <<>>
    /\ sent = <<>>
    /\ calls = 0
    /\ prev = "other"
    /\ last = [op |-> "None", fc |-> 0, slaveID |-> 0, qty |-> 0, x |-> NoExchange]

NoFlight == [th |-> <<>>, wire |-> <<>>, overlap |-> FALSE]

Init == ClientInit /\ codec = NoCodec /\ flight = NoFlight

Next ==
    \/ TCPConnect \/ TCPClose
    \/ TCPReadCoils \/ TCPReadDiscreteInputs
    \/ TCPReadHoldingRegisters \/ TCPReadInputRegisters
    \/ TCPWriteSingleCoil \/ TCPWriteSingleRegister
    \/ TCPWriteMultipleCoils \/ TCPWriteMultipleRegisters
    \/ RTUConnect \/ RTUClose
    \/ RTUReadCoils \/ RTUReadDiscreteInputs
    \/ RTUReadHoldingRegisters \/ RTUReadInputRegisters
    \/ RTUWriteSingleCoil \/ RTUWriteSingleRegister
    \/ RTUWriteMultipleCoils \/ RTUWriteMultipleRegisters
    \/ TakeResult

Spec == Init /\ [][Next]_vars

(***************************************************************************)
(* The checksum engine on its own: AppendCRC is applied to a byte sequence *)
(* and CheckCRC to the frame it returned.  The client is not touched.      *)
(***************************************************************************)
MaxCRCLen == 3

CRCBytes == {1, 2, 129, 255}

ByteSeqs(n) == UNION {[1..k -> CRCBytes] : k \in 0..n}

MaxBits == 9

BoolSeqs(n) == UNION {[1..k -> BOOLEAN] : k \in 0..n}

\* quantities a caller may ask bytesToBools for: within and beyond the data
DecodeQuantities == 0..(8 * MaxCRCLen + 2)

MaxRegs == 2

RegisterSet == {0, 1, 255, 256, 4660, 65535}

RegisterSeqs(n) == UNION {[1..k -> RegisterSet] : k \in 0..n}

InitCodec ==
    /\ ClientInit
    /\ transport = "rtu"
    /\ scenario = "faults"
    /\ flight = NoFlight
    /\ \/ codec \in {[NoCodec EXCEPT !.x = x] : x \in ByteSeqs(MaxCRCLen)}
       \/ codec \in {[NoCodec EXCEPT !.kind = "bools", !.x = v] : v \in BoolSeqs(MaxBits)}
       \/ codec \in {[NoCodec EXCEPT !.kind = "registers", !.x = r] : r \in RegisterSeqs(MaxRegs)}

\* frame := AppendCRC(x)
DoAppendCRC ==
    /\ codec.op = "None" /\ codec.kind = "bytes"
    /\ codec' = [codec EXCEPT !.op = "AppendCRC", !.frame = AppendCRC(codec.x)]
    /\ UNCHANGED <<clientVars, flight>>

\* ok := CheckCRC(frame)
DoCheckCRC ==
    /\ codec.op = "AppendCRC"
    /\ codec' = [codec EXCEPT !.op = "CheckCRC", !.ok = CheckCRC(codec.frame)]
    /\ UNCHANGED <<clientVars, flight>>

\* the frame with bit p (bit p % 8 of byte p \div 8) inverted
FlipBit(frame, p) ==
    LET k == p \div 8 + 1
        b == frame[k]
        flipped == IF Bit(b, p % 8) = 1 THEN b - Pow2(p % 8) ELSE b + Pow2(p % 8)
    IN  [frame EXCEPT ![k] = flipped]

\* one bit of the frame AppendCRC returned is inverted before it is verified
DoFlipBit ==
    /\ codec.op = "AppendCRC"
    /\ \E p \in 0..(8 * Len(codec.frame) - 1) :
          codec' = [codec EXCEPT !.op = "FlipBit", !.p = p,
                                 !.frame = FlipBit(codec.frame, p)]
    /\ UNCHANGED <<clientVars, flight>>

\* ok := CheckCRC(frame) on the frame with the inverted bit
DoCheckFlipped ==
    /\ codec.op = "FlipBit"
    /\ codec' = [codec EXCEPT !.op = "CheckFlipped", !.ok = CheckCRC(codec.frame)]
    /\ UNCHANGED <<clientVars, flight>>

\* frame := boolsToBytes(x)
DoBoolsToBytes ==
    /\ codec.op = "None" /\ codec.kind = "bools"
    /\ codec' = [codec EXCEPT !.op = "boolsToBytes", !.frame = boolsToBytes(codec.x)]
    /\ UNCHANGED <<clientVars, flight>>

\* out := bytesToBools(frame, len(x)) on the encoding of x, or
\* out := bytesToBools(x, q) on any bytes x with any quantity q
DoBytesToBools ==
    /\ \/ /\ codec.op = "boolsToBytes"
          /\ codec' = [codec EXCEPT !.op = "bytesToBools", !.q = Len(codec.x),
                                     !.out = bytesToBools(codec.frame, Len(codec.x))]
       \/ /\ codec.op = "None" /\ codec.kind = "bytes"
          /\ \E q \in DecodeQuantities :
                codec' = [codec EXCEPT !.op = "bytesToBools", !.q = q,
                                       !.out = bytesToBools(codec.x, q)]
    /\ UNCHANGED <<clientVars, flight>>

\* frame := uint16sToBytes(x)
DoUint16sToBytes ==
    /\ codec.op = "None" /\ codec.kind = "registers"
    /\ codec' = [codec EXCEPT !.op = "uint16sToBytes", !.frame = uint16sToBytes(codec.x)]
    /\ UNCHANGED <<clientVars, flight>>

\* out := bytesToUint16s(frame) on the encoding of x, or
\* out := bytesToUint16s(x) on any bytes x
DoBytesToUint16s ==
    /\ \/ /\ codec.op = "uint16sToBytes"
          /\ codec' = [codec EXCEPT !.op = "bytesToUint16s",
                                     !.out = bytesToUint16s(codec.frame)]
       \/ /\ codec.op = "None" /\ codec.kind = "bytes"
          /\ codec' = [codec EXCEPT !.op = "bytesToUint16s",
                                     !.out = bytesToUint16s(codec.x)]
    /\ UNCHANGED <<clientVars, flight>>

NextCodec ==
    \/ DoAppendCRC \/ DoCheckCRC \/ DoFlipBit \/ DoCheckFlipped
    \/ DoBoolsToBytes \/ DoBytesToBools
    \/ DoUint16sToBytes \/ DoBytesToUint16s

SpecCodec == InitCodec /\ [][NextCodec]_vars

(***************************************************************************)
(* Properties.                                                             *)
(***************************************************************************)
CallOps ==
    BitReads \cup RegisterReads
    \cup {"WriteSingleCoil", "WriteSingleRegister", "WriteMultipleCoils",
          "WriteMultipleRegisters"}

IsCall == last.op \in CallOps

\* the correlation id in the first two bytes of a stream frame
FrameTransID(frame) == frame[1] * 256 + frame[2]

\* the request data (after the function code) of the frame the call wrote
RequestData ==
    IF transport = "tcp" THEN Drop(last.x.wrote, MBAPLen + 1)
    ELSE SubSeq(last.x.wrote, 3, Len(last.x.wrote) - 2)

\* the answer of a conforming device to the request the call wrote
ConformingAnswer ==
    IF transport = "tcp"
    THEN TCPFrame(last.x.sentID, 1 + Len(CorrectPDU(last.fc, RequestData)), last.slaveID,
                  CorrectPDU(last.fc, RequestData))
    ELSE AppendCRC(<<last.slaveID>> \o CorrectPDU(last.fc, RequestData))

\* the data the device holds for the request of the call
DeviceData ==
    IF last.op \in BitReads THEN [i \in 1..last.qty |-> DeviceCoil(i)]
    ELSE IF last.op \in RegisterReads THEN [i \in 1..last.qty |-> DeviceRegister(i)]
    ELSE <<>>

\* C1: on a stream client the correlation ids of the request frames handed to
\* the channel go up by one modulo 2^16 from call to call: the i-th frame of a
\* client carries (counter at the start + i) mod 65536, so the first frame of
\* a new client carries 1 and 65535 is followed by 0; the id written is the
\* value of the counter after its increment.
C1_SuccessiveIDs ==
    transport = "tcp" =>
        /\ \A i \in 1..Len(sent) : sent[i] = (Uint16Of(tid0) + i) % U16
        /\ (tid0 = NewCounter /\ Len(sent) >= 1 => sent[1] = 1)
        /\ \A i \in 1..(Len(sent) - 1) : sent[i] = U16 - 1 => sent[i + 1] = 0
        /\ (last.x.writeCalled =>
                /\ last.x.sentID = Uint16Of(transactionID)
                /\ FrameTransID(last.x.wrote) = last.x.sentID)

C1_Witness == transport = "tcp" /\ sent = <<U16 - 1, 0>>

\* C2: on the stream transport, when the correlation id parsed from the
\* response header differs from the id sent, the call returns InvalidResponse
\* (no success, no Modbus exception), whatever follows the header.
C2_MismatchRejected ==
    (transport = "tcp" /\ IsCall /\ last.x.respTransID >= 0
     /\ last.x.respTransID # last.x.sentID)
        => last.x.err = "InvalidResponse"

C2_Witness ==
    /\ transport = "tcp" /\ IsCall /\ last.x.writeCalled
    /\ last.x.remote = TCPFrame((last.x.sentID + 1) % U16,
                                1 + Len(CorrectPDU(last.fc, RequestData)), last.slaveID,
                                CorrectPDU(last.fc, RequestData))
    /\ last.x.respTransID = (last.x.sentID + 1) % U16
    /\ last.x.err = "InvalidResponse"

\* the channel delivers what the remote sends in one piece
WholeDelivery == ShortReads = {}

\* C3: after a call that failed with a validation, framing or application
\* error on a channel that stays open, the next call, when the remote answers
\* its request with the correct, complete response (delivered in one piece),
\* returns success with the data of that response.
C3_UsableAfterFailure ==
    (IsCall /\ prev = "failed" /\ chan \in opened /\ last.x.writeCalled
     /\ WholeDelivery /\ last.x.remote = ConformingAnswer)
        => (last.x.err = "" /\ Value(last) = DeviceData)

\* C4: after Close on a connected client, every operation that passes the
\* quantity validation returns the channel-not-open error without a Write on
\* the closed channel, until Connect succeeds again.
C4_NotConnectedAfterClose ==
    (IsCall /\ chan # 0 /\ chan \notin opened /\ last.x.err # "InvalidQuantity")
        => (last.x.err \in {"NotConnected", "PortNotOpen"} /\ ~last.x.writeCalled)

\* the quantities the protocol rejects, per operation
OutOfRange(op, n) ==
    IF op \in BitReads THEN n = 0 \/ n > 2000
    ELSE IF op \in RegisterReads THEN n = 0 \/ n > 125
    ELSE IF op = "WriteMultipleCoils" THEN n = 0 \/ n > 1968
    ELSE IF op = "WriteMultipleRegisters" THEN n = 0 \/ n > 123
    ELSE FALSE

\* C5: on both transports an operation returns InvalidQuantity exactly when
\* its quantity (or value count) is 0 or above the limit of the operation
\* (2000 / 125 / 1968 / 123); a rejected call writes and reads nothing and
\* leaves the stream counter where it was (the counter is always the start
\* value plus the number of frames handed to Write), connected or not.
C5_QuantityValidation ==
    /\ IsCall =>
        /\ (last.x.err = "InvalidQuantity") <=> OutOfRange(last.op, last.qty)
        /\ last.x.err = "InvalidQuantity" =>
              (~last.x.writeCalled /\ last.x.reads = 0 /\ last.x.wrote = <<>>
               /\ last.x.tid = transactionID /\ last.x.inb = last.x.stale)
    /\ Uint16Of(transactionID) = (Uint16Of(tid0) + Len(sent)) % U16

C5_Witness ==
    /\ last.op = "ReadCoils" /\ last.qty = 2000 /\ chan \in opened
    /\ last.x.err = "" /\ Len(Value(last)) = 2000

\* the last two bytes of a serial frame are the CRC-16, low byte first, of
\* the bytes before them
ChecksumMatches(rx) ==
    rx[Len(rx) - 1] + 256 * rx[Len(rx)] = CRC16(SubSeq(rx, 1, Len(rx) - 2))

\* the serial call read a frame: what it did with it is in last.x
RTUReceived == transport = "rtu" /\ IsCall /\ last.x.reads = 1

\* the stream call read a header and a PDU, each in full
TCPReceived ==
    /\ transport = "tcp" /\ IsCall /\ last.x.reads = 2
    /\ last.x.hdrN = 7 /\ last.x.respTransID = last.x.sentID
    /\ last.x.length >= 2 /\ last.x.pduN = last.x.length - 1

\* the call returned the typed Modbus exception (fc, code)
ReturnsException(fc, code) ==
    last.x.err = "ModbusError" /\ last.x.excFc = fc /\ last.x.excCode = code

\* C6: on both transports a response received in full and correctly framed
\* (stream: matching correlation id and a PDU of the announced length; serial:
\* at least 4 bytes, valid checksum, matching unit id) whose function-code
\* byte is the request's function code with bit 0x80 set never yields success:
\* with an exception-code byte after it the call returns the Modbus exception
\* of the request's function code and that code, without one InvalidResponse.
C6_ExceptionResponse ==
    /\ (TCPReceived /\ last.x.pdu.got[1] = last.fc + 128) =>
          IF last.x.pduN >= 2
          THEN ReturnsException(last.fc, last.x.pdu.got[2])
          ELSE last.x.err = "InvalidResponse"
    /\ (RTUReceived /\ Len(last.x.rx) >= 4 /\ ChecksumMatches(last.x.rx)
        /\ last.x.rx[1] = last.slaveID /\ last.x.rx[2] = last.fc + 128) =>
          IF Len(last.x.rx) >= 5
          THEN ReturnsException(last.fc, last.x.rx[3])
          ELSE last.x.err = "InvalidResponse"

C6_Witness ==
    /\ RTUReceived /\ last.op = "ReadCoils"
    /\ last.x.rx = <<1, 129, 2, 193, 145>>
    /\ ReturnsException(1, 2)

\* the call interpreted nothing of what it received
NothingInterpreted ==
    last.x.resp = NoSlice /\ last.x.excFc = 0 /\ last.x.excCode = 0

\* C7: on the serial transport a received frame of at least 4 bytes whose last
\* two bytes are not the CRC-16 (low byte first) of the bytes before them makes
\* the call return InvalidCRC, with no payload and no exception taken from it.
C7_BadChecksum ==
    (RTUReceived /\ Len(last.x.rx) >= 4 /\ ~ChecksumMatches(last.x.rx))
        => (last.x.err = "InvalidCRC" /\ NothingInterpreted)

C7_Witness ==
    /\ RTUReceived /\ last.x.writeCalled
    /\ last.x.rx = Corrupt(ConformingAnswer)
    /\ last.x.err = "InvalidCRC"

\* C8: on the serial transport a read that delivers fewer than 4 bytes (0
\* included) makes the call return Timeout, whatever the bytes are.
C8_ShortFrameTimeout ==
    (RTUReceived /\ Len(last.x.rx) < 4)
        => (last.x.err = "Timeout" /\ NothingInterpreted)

C8_Witness ==
    /\ RTUReceived
    /\ last.x.rx = AppendCRC(<<last.slaveID>>)
    /\ last.x.err = "Timeout"

\* the check of the fixed order that a received serial frame fails first
FirstFailingCheck(rx, slaveID, fc) ==
    IF Len(rx) < 4 THEN "Timeout"
    ELSE IF ~ChecksumMatches(rx) THEN "InvalidCRC"
    ELSE IF rx[1] # slaveID THEN "InvalidSlaveID"
    ELSE IF rx[2] = fc + 128 THEN "Exception"
    ELSE "Payload"

\* C9: on the serial transport the checks on a received frame run in the order
\* length (Timeout), checksum (InvalidCRC), unit id (InvalidSlaveID), exception
\* marker, success payload, and the call returns the error of the first check
\* that fails: a frame with a valid checksum and another unit id gives
\* InvalidSlaveID even when it carries the exception marker; a frame that
\* passes all checks hands the bytes between the function code and the
\* checksum to the operation.
C9_CheckOrder ==
    RTUReceived =>
        LET first == FirstFailingCheck(last.x.rx, last.slaveID, last.fc)
        IN  IF first = "Exception"
            THEN last.x.err \in {"ModbusError", "InvalidResponse"}
            ELSE IF first = "Payload"
            THEN /\ last.x.err \in {"", "InvalidResponse"}
                 /\ SliceBytes(last.x.resp) = SubSeq(last.x.rx, 3, Len(last.x.rx) - 2)
            ELSE last.x.err = first /\ NothingInterpreted

C9_Witness ==
    /\ RTUReceived
    /\ last.x.rx = AppendCRC(<<last.slaveID + 1, last.fc + 128, 2>>)
    /\ last.x.err = "InvalidSlaveID"

\* x followed by the low byte and then the high byte of CRC16(x)
WithChecksum(x) == x \o <<CRC16(x) % 256, CRC16(x) \div 256>>

\* C10 as stated: for every byte sequence x, the empty one included,
\* AppendCRC(x) is x followed by the low and the high byte of CRC16(x), and
\* CheckCRC(AppendCRC(x)) is true.
C10_RoundTripEverySequence ==
    /\ codec.op \in {"AppendCRC", "CheckCRC"} => codec.frame = WithChecksum(codec.x)
    /\ codec.op = "CheckCRC" => codec.ok

\* C10 amended: for every byte sequence x, AppendCRC(x) is x followed by the
\* low and the high byte of CRC16(x); CheckCRC(AppendCRC(x)) is true for every
\* non-empty x, and false for the empty x, whose two-byte frame is below the
\* three bytes CheckCRC requires.
C10_RoundTripNonEmpty ==
    /\ codec.op \in {"AppendCRC", "CheckCRC"} => codec.frame = WithChecksum(codec.x)
    /\ codec.op = "CheckCRC" => (codec.ok <=> codec.x # <<>>)

C10_Witness ==
    /\ codec.op = "CheckCRC"
    /\ codec.x = <<1, 129, 2>>
    /\ codec.frame = <<1, 129, 2, 193, 145>>
    /\ codec.ok

\* C11: for every non-empty byte sequence x and every bit position p of the
\* frame AppendCRC(x), payload and checksum bytes alike, CheckCRC of the frame
\* with bit p inverted is false.
C11_SingleBitDetected ==
    (codec.op = "CheckFlipped" /\ codec.x # <<>>) =>
        /\ Len(codec.frame) = Len(codec.x) + 2
        /\ codec.frame # WithChecksum(codec.x)
        /\ ~codec.ok

C11_Witness ==
    /\ codec.op = "CheckFlipped"
    /\ codec.x = <<1, 129, 2>>
    /\ codec.p = 39
    /\ codec.frame = <<1, 129, 2, 193, 17>>
    /\ ~codec.ok

\* bit i (counted from 0) of a byte sequence, low bit of each byte first;
\* bits beyond the end are 0
BitAt(d, i) == IF i \div 8 < Len(d) THEN (d[i \div 8 + 1] \div Pow2(i % 8)) % 2 ELSE 0

\* C12: for every boolean sequence v of length Q, bytesToBools(boolsToBytes(v),
\* Q) is v; boolsToBytes(v) has ceil(Q/8) bytes, with bit i of v at bit i mod 8
\* of byte i div 8 and the unused high bits of the last byte zero; and
\* bytesToBools(d, Q) returns exactly Q values, bit i of d for value i and
\* false beyond the end of d.
C12_BitRoundTrip ==
    /\ (codec.kind = "bools" /\ codec.op \in {"boolsToBytes", "bytesToBools"}) =>
          /\ Len(codec.frame) = (Len(codec.x) + 7) \div 8
          /\ \A i \in 0..(8 * Len(codec.frame) - 1) :
                BitAt(codec.frame, i) = 1 <=> (i < Len(codec.x) /\ codec.x[i + 1])
    /\ (codec.kind = "bools" /\ codec.op = "bytesToBools") => codec.out = codec.x
    /\ (codec.kind = "bytes" /\ codec.op = "bytesToBools") =>
          /\ Len(codec.out) = codec.q
          /\ \A i \in 0..(codec.q - 1) : codec.out[i + 1] <=> BitAt(codec.x, i) = 1

C12_Witness ==
    /\ codec.kind = "bools" /\ codec.op = "bytesToBools"
    /\ codec.x = <<TRUE, FALSE, TRUE, FALSE, FALSE, FALSE, FALSE, FALSE, TRUE>>
    /\ codec.frame = <<5, 1>>
    /\ codec.out = codec.x

\* C13: for every sequence r of 16-bit registers, bytesToUint16s(
\* uint16sToBytes(r)) is r, each register being encoded in exactly 2 bytes,
\* high byte first; for any byte sequence the decoder returns floor(len/2)
\* registers, so the last byte of an odd-length sequence is ignored.
C13_RegisterRoundTrip ==
    /\ (codec.kind = "registers" /\ codec.op \in {"uint16sToBytes", "bytesToUint16s"}) =>
          /\ Len(codec.frame) = 2 * Len(codec.x)
          /\ \A i \in 1..Len(codec.x) :
                /\ codec.frame[2 * i - 1] = codec.x[i] \div 256
                /\ codec.frame[2 * i] = codec.x[i] % 256
    /\ (codec.kind = "registers" /\ codec.op = "bytesToUint16s") => codec.out = codec.x
    /\ (codec.kind = "bytes" /\ codec.op = "bytesToUint16s") =>
          /\ Len(codec.out) = Len(codec.x) \div 2
          /\ \A i \in 1..Len(codec.out) :
                codec.out[i] = 256 * codec.x[2 * i - 1] + codec.x[2 * i]

C13_Witness ==
    /\ codec.kind = "registers" /\ codec.op = "bytesToUint16s"
    /\ codec.x = <<4660, 255>>
    /\ codec.frame = <<18, 52, 0, 255>>
    /\ codec.out = <<4660, 255>>

\* C14: on both transports a call returns success only when the function-code
\* byte of the response received (in full and correctly framed) is the
\* function code of the request.
C14_FunctionCodeChecked ==
    /\ (TCPReceived /\ last.x.err = "") => last.x.pdu.got[1] = last.fc
    /\ (RTUReceived /\ last.x.err = "") => last.x.rx[2] = last.fc

\* C15: on the stream transport the header is parsed only after exactly 7
\* header bytes were received, and the PDU is interpreted only after exactly
\* length - 1 further bytes were received, however the channel splits the
\* response into reads.
C15_ExactReads ==
    (transport = "tcp" /\ IsCall) =>
        /\ last.x.respTransID >= 0 => last.x.hdrN = 7
        /\ (last.x.reads = 2 /\ last.x.pduN >= 0 /\ last.x.length >= 1) =>
              last.x.pduN = last.x.length - 1

\* C16: whatever bytes the remote sends (delivered in one piece), each
\* operation returns a result or an error: no index out of range, and no
\* unsigned underflow of length - 1 (the PDU is read only for a length of at
\* least 1), also when the stream header announces a length of 0 or 1.
C16_NoFault ==
    (IsCall /\ WholeDelivery) =>
        /\ last.x.err # "Panic"
        /\ (transport = "tcp" /\ last.x.reads = 2) => last.x.length >= 1

\* C17: a register read called with quantity q that returns success returns
\* exactly q registers, taken from a response (delivered in one piece) whose
\* byte count and number of register bytes are both 2 * q.
C17_RegisterCount ==
    (IsCall /\ last.op \in RegisterReads /\ WholeDelivery /\ last.x.err = "") =>
        /\ Len(Value(last)) = last.qty
        /\ SliceAt(last.x.resp, 0) = 2 * last.qty
        /\ last.x.resp.cap = 1 + 2 * last.qty

(***************************************************************************)
(* Calls running concurrently on one connected stream client.  Each call   *)
(* goes through the steps of TCPClient.sendRequest, which other calls may  *)
(* interleave with: the atomic increment, the Write, the Read of the       *)
(* header, the Read of the PDU.  The remote answers the requests in the    *)
(* order they were written, each with the correct response.  A Read waits  *)
(* for bytes while an answer is still to come and fails on its deadline    *)
(* when none is.                                                           *)
(***************************************************************************)
NumThreads == 2

Threads == 1..NumThreads

\* the operation thread t calls: ReadCoils or ReadHoldingRegisters
ThreadFc(t) == IF t % 2 = 1 THEN FuncCodeReadCoils ELSE FuncCodeReadHoldingRegisters

ThreadQuantity(t) == IF t % 2 = 1 THEN 8 + 2 * t ELSE t

ThreadData(t) == PutUint16(258) \o PutUint16(ThreadQuantity(t))

InProgress(t) == flight.th[t].pc \in {"added", "wrote", "header"}

InitConcurrent ==
    /\ transport = "tcp"
    /\ scenario = "limits"
    /\ chan = 1
    /\ opened = {1}
    /\ dials = 1
    /\ tid0 \in {NewCounter, NearWrap}
    /\ transactionID = tid0
    /\ inbuf = <<>>
    /\ sent = <<>>
    /\ calls = 0
    /\ prev = "other"
    /\ last = [op |-> "None", fc |-> 0, slaveID |-> 0, qty |-> 0, x |-> NoExchange]
    /\ codec = NoCodec
    /\ flight = [th |-> [t \in Threads |-> [pc |-> "idle", x |-> NoExchange]],
                 wire |-> <<>>, overlap |-> FALSE]

\* the call passes the validation and the nil check and increments the counter
CallBegin ==
    \E t \in Threads :
        /\ flight.th[t].pc = "idle"
        /\ ~TCPNotConnected
        /\ transactionID' = AddUint32One(transactionID)
        /\ flight' = [flight EXCEPT
                !.th[t] = [pc |-> "added",
                           x |-> [NoExchange EXCEPT
                                    !.tid = AddUint32One(transactionID),
                                    !.sentID = TCPNextTransID(transactionID)]],
                !.overlap = flight.overlap \/ \E u \in Threads \ {t} : InProgress(u)]
        /\ calls' = calls + 1
        /\ UNCHANGED <<transport, chan, opened, dials, inbuf, sent, tid0, last, prev,
                       scenario, codec>>

\* c.conn.Write(request)
CallWrite ==
    \E t \in Threads :
        /\ flight.th[t].pc = "added"
        /\ LET x == flight.th[t].x
               request == TCPFrame(x.sentID, (2 + Len(ThreadData(t))) % U16, 1,
                                   <<ThreadFc(t)>> \o ThreadData(t))
           IN  /\ flight' = [flight EXCEPT
                       !.th[t] = [pc |-> "wrote",
                                  x |-> [x EXCEPT !.writeCalled = TRUE, !.wrote = request]],
                       !.wire = Append(flight.wire, request)]
               /\ sent' = Append(sent, x.sentID)
        /\ UNCHANGED <<transport, chan, opened, dials, transactionID, inbuf, tid0, calls,
                       last, prev, scenario, codec>>

\* the remote answers the oldest request not answered yet
RemoteAnswer ==
    /\ flight.wire # <<>>
    /\ LET request == Head(flight.wire)
           pdu == CorrectPDU(request[MBAPLen + 1], Drop(request, MBAPLen + 1))
       IN  inbuf' = inbuf \o TCPFrame(FrameTransID(request), 1 + Len(pdu),
                                      request[MBAPLen], pdu)
    /\ flight' = [flight EXCEPT !.wire = Tail(flight.wire)]
    /\ UNCHANGED <<transport, chan, opened, dials, transactionID, sent, tid0, calls,
                   last, prev, scenario, codec>>

\* bytes are there to read, or none will come before the deadline
ReadReturns == inbuf # <<>> \/ flight.wire = <<>>

\* c.conn.Read(header), the parse of the header and the check of its id
CallReadHeader ==
    \E t \in Threads :
        /\ flight.th[t].pc = "wrote"
        /\ ReadReturns
        /\ \E r \in TCPReadHeader(flight.th[t].x.sentID, inbuf,
                                  [flight.th[t].x EXCEPT !.inb = inbuf, !.stale = inbuf]) :
              /\ flight' = [flight EXCEPT
                      !.th[t] = [pc |-> IF r.err # "" THEN "done" ELSE "header", x |-> r]]
              /\ inbuf' = r.inb
        /\ UNCHANGED <<transport, chan, opened, dials, transactionID, sent, tid0, calls,
                       last, prev, scenario, codec>>

\* c.conn.Read(pduData), the exception check, and the operation's own check
CallReadPDU ==
    \E t \in Threads :
        /\ flight.th[t].pc = "header"
        /\ ReadReturns \/ TCPPDULen(flight.th[t].x.length) = 0
        /\ \E r \in TCPReadPDU(ThreadFc(t), flight.th[t].x.length, inbuf,
                               [flight.th[t].x EXCEPT !.inb = inbuf]) :
              /\ flight' = [flight EXCEPT
                      !.th[t] = [pc |-> "done",
                                 x |-> IF r.err = "" /\ NoPayload(r)
                                       THEN [r EXCEPT !.err = "InvalidResponse"]
                                       ELSE r]]
              /\ inbuf' = r.inb
        /\ UNCHANGED <<transport, chan, opened, dials, transactionID, sent, tid0, calls,
                       last, prev, scenario, codec>>

NextConcurrent ==
    CallBegin \/ CallWrite \/ RemoteAnswer \/ CallReadHeader \/ CallReadPDU

SpecConcurrent == InitConcurrent /\ [][NextConcurrent]_vars

\* the calls that have incremented the counter
Started == {t \in Threads : flight.th[t].pc # "idle"}

\* C18: with several calls running concurrently on one stream client no
\* increment of the correlation counter is lost (the counter is its start
\* value plus the number of calls that incremented it), each call captures the
\* value its own increment produced, and the ids captured by the calls are
\* pairwise distinct.
C18_AtomicCounter ==
    flight.th # <<>> =>
        /\ transactionID.lo = (tid0.lo + Cardinality(Started)) % U16
        /\ transactionID.hi = (tid0.hi + (tid0.lo + Cardinality(Started)) \div U16) % U16
        /\ \A t \in Started : flight.th[t].x.sentID = flight.th[t].x.tid.lo
        /\ \A t, u \in Started :
              t # u => /\ flight.th[t].x.tid # flight.th[u].x.tid
                       /\ flight.th[t].x.sentID # flight.th[u].x.sentID

C18_Witness ==
    /\ flight.th # <<>> /\ flight.overlap
    /\ flight.th[2].x.sentID = U16 - 1
    /\ flight.th[1].x.sentID = 0

\* the payload (after the function code) of the response to the request of t
OwnPayload(t) == Tail(CorrectPDU(ThreadFc(t), ThreadData(t)))

Returned(t) == flight.th # <<>> /\ flight.th[t].pc = "done"

\* the call of t returned success with the payload of the response to its request
ReturnedOwn(t) ==
    /\ flight.th[t].x.err = ""
    /\ flight.th[t].x.resp = Slice(OwnPayload(t), Len(OwnPayload(t)))

\* C19: calls on one stream client issued one at a time, each answered
\* correctly, all return success with the payload of their own response; with
\* two calls in progress at the same time there is an interleaving of their
\* steps (the witness) in which one call fails with InvalidResponse and the
\* other returns as success data that is not the payload of its own response.
C19_SerialCallsSucceed ==
    \A t \in Threads : (Returned(t) /\ ~flight.overlap) => ReturnedOwn(t)

C19_Witness ==
    /\ flight.th # <<>> /\ flight.overlap
    /\ \E t, u \in Threads :
          /\ Returned(t) /\ flight.th[t].x.err = "InvalidResponse"
          /\ Returned(u) /\ flight.th[u].x.err = "" /\ ~ReturnedOwn(u)

\* the client has never been connected: no Connect has succeeded on it
NeverConnected == chan = 0

\* what holds of a client that has never been connected
NotConnectedState ==
    NeverConnected =>
        /\ opened = {} /\ inbuf = <<>> /\ sent = <<>> /\ transactionID = tid0
        /\ (IsCall /\ last.x.err # "InvalidQuantity") =>
              /\ last.x.err \in {"NotConnected", "PortNotOpen"}
              /\ ~last.x.writeCalled /\ last.x.wrote = <<>> /\ last.x.reads = 0

\* a Connect that returns an error leaves c.conn / c.port and the open channels
FailedConnectKeepsChannel ==
    (last'.op = "Connect" /\ last'.x.err # "") => (chan' = chan /\ opened' = opened)

\* C20: on a client never successfully connected (also after a failed
\* Connect) every operation that passes the quantity validation returns the
\* channel-not-open error, opens no channel, writes and reads nothing and
\* leaves the stream counter where it was; and a failed Connect leaves the
\* client's channel reference unchanged.
C20_NoImplicitConnection ==
    []NotConnectedState /\ [][FailedConnectKeepsChannel]_vars

C20_Witness ==
    /\ transport = "rtu" /\ NeverConnected /\ dials = 1
    /\ last.op = "ReadCoils" /\ last.x.err = "PortNotOpen"

\* C21: whatever Connect and Close calls are made on a client, at most one of
\* the channels it acquired is open at any time, and once Close has returned
\* none of them is open.
C21_OneChannelOpen ==
    /\ Cardinality(opened) <= 1
    /\ last.op = "Close" => opened = {}

====
